---- MODULE Spec2Model ----
(***************************************************************************)
(* Comment-to-DM pipeline of Dmrocket: the comment webhook handler         *)
(* (app/instagram/webhooks.py), the Celery delivery task and the rate      *)
(* limiter (app/workers/tasks.py) over the tables of app/models.py.        *)
(*                                                                         *)
(* The database is the committed state (dm_logs, automations, user,        *)
(* trackers).  Every web replica and every Celery worker owns a SQLAlchemy *)
(* session: what it has loaded is a private snapshot, its pending changes  *)
(* become visible at db.commit() and are dropped at db.rollback().  The    *)
(* ORM writes the values it computed from its snapshot (UPDATE ... SET     *)
(* col = value), so a read and the commit that follows it are separate     *)
(* steps of the model.                                                     *)
(***************************************************************************)
EXTENDS Integers, Sequences, FiniteSets, TLC

\* ---------------------------------------------------------------- bounds
\* webhook deliveries accepted over a run
MaxWebhooks == 2
\* redeliveries of an already delivered Celery message over a run
MaxRedeliveries == 1
\* last tick of the clock; one tick is one day
MaxNow == 1

\* ------------------------------------------------------------- constants
\* Settings.DM_RATE_LIMIT_PER_DAY
DM_RATE_LIMIT_PER_DAY == 100
\* @celery_app.task(bind=True, max_retries=3)
max_retries == 3
\* the literal of "if dm_log.retry_count < 3"
RetryCeiling == 3
\* countdown of the rate-limit retry, seconds
DeferCountdown == 3600
\* base of the failure countdown, seconds
BackoffBase == 300
\* timedelta(days=1) of track_rate_limit, in ticks
WindowDays == 1

\* web replicas and Celery workers, by number
Handlers == {1, 2}
Workers == {1, 2}
AutomationIds == {1, 2}

\* --------------------------------------------------------------- strings
\* the character U+00DF, LATIN SMALL LETTER SHARP S
SharpS == "sharp-s"

\* str.lower() on the characters the model uses; the sharp s is lower case
Lower(c) ==
  CASE c = "B" -> "b"
    [] c = "U" -> "u"
    [] c = "Y" -> "y"
    [] c = "H" -> "h"
    [] c = "I" -> "i"
    [] c = "S" -> "s"
    [] OTHER -> c

LowerStr(s) == [i \in 1..Len(s) |-> Lower(s[i])]

\* Python's "needle in haystack" on strings
Contains(haystack, needle) ==
  \E i \in 0..(Len(haystack) - Len(needle)) :
     \A k \in 1..Len(needle) : haystack[i + k] = needle[k]

NoKeyword == <<"None">>

RECURSIVE FirstMatch(_, _, _, _)
FirstMatch(search_text, keywords, case_sensitive, i) ==
  IF i > Len(keywords) THEN NoKeyword
  ELSE LET search_keyword == IF case_sensitive THEN keywords[i] ELSE LowerStr(keywords[i])
       IN IF Contains(search_text, search_keyword) THEN keywords[i]
          ELSE FirstMatch(search_text, keywords, case_sensitive, i + 1)

\* the matcher without the lower() of the case-insensitive mode
check_keyword_match_exact(text, keywords, case_sensitive) ==
  FirstMatch(text, keywords, TRUE, 1)

check_keyword_match(text, keywords, case_sensitive) ==
  FirstMatch(IF case_sensitive THEN text ELSE LowerStr(text), keywords, case_sensitive, 1)

\* "if matched_keyword:": None and the empty string count as no match
Falsy(matched_keyword) == matched_keyword = NoKeyword \/ matched_keyword = << >>

\* ---------------------------------------------------------------- inputs
\* comment webhook values the platform delivers (value.id, value.from.id,
\* value.media.id, value.text); the last is a comment on a media that no
\* automation targets
Events ==
  << [comment_id |-> "c1", commenter_id |-> "p1", media_id |-> "m1", text |-> <<"B", "u", "y">>],
     [comment_id |-> "c2", commenter_id |-> "p1", media_id |-> "m1", text |-> <<"b", "u", "y">>],
     [comment_id |-> "c3", commenter_id |-> "p2", media_id |-> "m1", text |-> <<"h", "i">>],
     [comment_id |-> "c4", commenter_id |-> "p2", media_id |-> "m2", text |-> <<"B", "u", "y">>] >>

\* one element of entry["messaging"], by the members the code tests: sender.id,
\* the kind of "message" ("" for none) and "reaction"
Messaging(sender, message, reaction) ==
  [list |-> "messaging", field |-> "", value |-> FALSE, id |-> FALSE, media |-> FALSE,
   from |-> FALSE, sender |-> sender, message |-> message, reaction |-> reaction]

\* one element of entry["changes"]: its field, whether it has a "value", and
\* whether the value has id, media.id and from.id
Change(field, value, id, media, from) ==
  [list |-> "changes", field |-> field, value |-> value, id |-> id, media |-> media,
   from |-> from, sender |-> FALSE, message |-> "", reaction |-> FALSE]

\* a comment change without "value"
NoValue == Change("comments", FALSE, FALSE, FALSE, FALSE)

\* a direct message with text
TextMessage == Messaging(TRUE, "text", FALSE)

\* request bodies, each with the hex HMAC-SHA256 of its bytes under
\* META_APP_SECRET.  before: the elements of the envelope ahead of its complete
\* comment event; event: the index of that comment event, 0 when the envelope
\* has none.  The last body is bytes that are not JSON.
Bodies ==
  { [mac |-> "mac1", json |-> TRUE, before |-> << >>, event |-> 1],
    [mac |-> "mac2", json |-> TRUE, before |-> << >>, event |-> 2],
    [mac |-> "mac3", json |-> TRUE, before |-> << >>, event |-> 3],
    [mac |-> "mac4", json |-> TRUE, before |-> <<NoValue>>, event |-> 0],
    [mac |-> "mac5", json |-> FALSE, before |-> << >>, event |-> 0] }

\* envelopes of one element that is not a complete comment event: a direct
\* message, a story reply, a reaction, a messaging event without sender, a
\* change of another field, and comments without id, media.id or from.id
OtherEvents ==
  << TextMessage,
     Messaging(TRUE, "story_reply", FALSE),
     Messaging(TRUE, "", TRUE),
     Messaging(FALSE, "text", FALSE),
     Change("mentions", TRUE, TRUE, TRUE, TRUE),
     Change("comments", TRUE, FALSE, TRUE, TRUE),
     Change("comments", TRUE, TRUE, FALSE, TRUE),
     Change("comments", TRUE, TRUE, TRUE, FALSE) >>

OtherMacs == <<"mac6", "mac7", "mac8", "mac9", "mac10", "mac11", "mac12", "mac13">>

OtherBodies ==
  { [mac |-> OtherMacs[i], json |-> TRUE, before |-> <<OtherEvents[i]>>, event |-> 0] :
      i \in DOMAIN OtherEvents }

\* envelopes of two elements: the comment event c1 after a comment change
\* without "value", and after a direct message
MixedBodies ==
  { [mac |-> "mac14", json |-> TRUE, before |-> <<NoValue>>, event |-> 1],
    [mac |-> "mac15", json |-> TRUE, before |-> <<TextMessage>>, event |-> 1] }

\* X-Hub-Signature-256 values, as pieces: the prefix, a hex digest, a
\* character outside ASCII
Prefix == "sha256="
NonAscii == "e-acute"

Signatures(body) ==
  { << >>, <<body.mac>>, <<Prefix, body.mac>>, <<Prefix, "mac0">>,
    <<Prefix, body.mac, Prefix, "mac0">>, <<Prefix, NonAscii>> }

Requests == UNION { {[signature |-> sg, body |-> b] : sg \in Signatures(b)} : b \in Bodies }

\* the envelope of the comment event on the other media
ElsewhereBodies == { [mac |-> "mac16", json |-> TRUE, before |-> << >>, event |-> 4] }

\* the envelopes without a complete comment event, the envelopes of two
\* elements and the comment events c1 and c4 alone, each under its signature
EnvelopeRequests ==
  { [signature |-> <<Prefix, b.mac>>, body |-> b] :
      b \in OtherBodies \cup MixedBodies \cup ElsewhereBodies \cup {c \in Bodies : c.event = 1} }

\* what the platform sends: comment envelopes under their signature
SignedRequests ==
  { req \in Requests : req.body.json /\ req.body.event # 0
                       /\ req.signature = <<Prefix, req.body.mac>> }

VARIABLES
  now,          \* datetime.utcnow(), in days
  user,         \* the users row of the owner of the automations
  automations,  \* automations table: id -> row
  dm_logs,      \* dm_logs table: sequence of rows, id = position
  trackers,     \* rate_limit_trackers rows of (user, "dm_send")
  queue,        \* Celery messages waiting in the broker
  handlers,     \* per web replica: position in process_comment_webhook and its session
  workers,      \* per Celery worker: position in process_comment_and_send_dm and its session
  webhooks,     \* number of webhook requests received so far
  webhook_logs, \* webhook_logs table: sequence of rows, id = position
  call,         \* the last call of a function or route without a row: arguments and result
  redelivered,  \* number of broker redeliveries so far
  delivered,    \* per dm_log id: successful send_message calls (the DMs the commenter got)
  attempts,     \* per dm_log id: send_message calls made
  sends_today   \* successful send_message calls during the current day

vars == <<now, user, automations, dm_logs, trackers, queue, handlers, workers,
          webhooks, webhook_logs, call, redelivered, delivered, attempts, sends_today>>

\* ------------------------------------------------------------ initial rows
NoDate == -1

\* users.encrypted_access_token: nothing stored, a ciphertext of the current
\* ENCRYPTION_KEY, or a ciphertext the current key does not decrypt
NoToken == ""
Tokens == {NoToken, "valid", "garbled"}

\* decrypt_token: the plaintext, or "" for an empty input and for a failed decryption
decrypt_token(encrypted_token) ==
  IF encrypted_token = NoToken THEN ""
  ELSE IF encrypted_token = "valid" THEN "token"
  ELSE ""

\* trial_end_date of the owner: the last day of the trial
TrialEnd == 0

AutomationRow(cs, kws) ==
  [ user_id |-> 1, instagram_media_id |-> "m1", keywords |-> kws, case_sensitive |-> cs,
    message_text |-> "hello", status |-> "active",
    total_comments_processed |-> 0, total_dms_sent |-> 0,
    total_dms_failed |-> 0, total_dms_pending |-> 0 ]

InitAutomations ==
  [a \in AutomationIds |->
     IF a = 1 THEN AutomationRow(FALSE, << <<"B", "U", "Y">> >>)
     ELSE AutomationRow(TRUE, << <<"B", "u", "y">>, <<"h", "i">> >>)]

\* nothing was called yet
NoCall == [op |-> "none"]

IdleHandler ==
  [pc |-> "idle", event |-> 0, todo |-> << >>, loaded |-> << >>, expired |-> FALSE,
   matched_keyword |-> NoKeyword, dm_log_id |-> 0,
   webhook_log |-> 0, user_loaded |-> FALSE, user |-> << >>, broken |-> FALSE,
   response |-> 0]

NoJob == [id |-> 0, retries |-> 0, countdown |-> 0]

IdleWorker ==
  [pc |-> "idle", job |-> NoJob, error_message |-> "", penalize |-> FALSE,
   dm_status |-> "", retry_count |-> 0, automation |-> << >>, access_token |-> "",
   message_text |-> "", tracker |-> 0, count |-> 0]

\* usage the owner's window already holds: its rows outlive the dm_logs of
\* deleted automations.  One short of the limit, so that the limit is in reach.
PriorUsage == DM_RATE_LIMIT_PER_DAY - 1

Init ==
  /\ now = 0
  /\ \E tok \in Tokens :
       user = [is_active |-> TRUE, subscription_status |-> "trial",
               trial_end_date |-> TrialEnd, subscription_end_date |-> NoDate,
               encrypted_access_token |-> tok]
  /\ automations = InitAutomations
  /\ dm_logs = << >>
  /\ trackers = << [count |-> PriorUsage, window_end |-> WindowDays] >>
  /\ sends_today = PriorUsage
  /\ queue = {}
  /\ handlers = [h \in Handlers |-> IdleHandler]
  /\ workers = [w \in Workers |-> IdleWorker]
  /\ webhooks = 0
  /\ webhook_logs = << >>
  /\ call = NoCall
  /\ redelivered = 0
  /\ delivered = << >>
  /\ attempts = << >>

\* ------------------------------------------------------------- entitlement
is_subscription_active(u, t) ==
  IF u.subscription_status = "trial" THEN t <= u.trial_end_date
  ELSE IF u.subscription_status = "active" THEN t <= u.subscription_end_date
  ELSE FALSE

\* the entitlement check without the account flag
can_use_automation_any_account(u, t) == is_subscription_active(u, t)

can_use_automation(u, t) == u.is_active /\ is_subscription_active(u, t)

\* ------------------------------------------------------------ verify_webhook
\* query_params.get of a parameter the request does not carry: Python's None,
\* which equals no string
None == "<None>"

\* settings.META_VERIFY_TOKEN
META_VERIFY_TOKEN == "verify-token"

\* hub.mode, hub.verify_token and hub.challenge of a GET /webhooks/instagram
Modes == {None, "subscribe", "Subscribe", "unsubscribe", ""}
VerifyTokens == {None, META_VERIFY_TOKEN, "VERIFY-TOKEN", "other", ""}
Challenges == {None, "", "1158201444", "challenge", "a b"}

\* Response.render: no content is the empty body
render(content) == IF content = None THEN "" ELSE content

PlainTextResponse(content, status_code) ==
  [status_code |-> status_code, media_type |-> "text/plain", body |-> render(content)]

\* HTTPException as FastAPI answers it
HTTPException(status_code, detail) ==
  [status_code |-> status_code, media_type |-> "application/json", body |-> detail]

\* the handshake that looks at the token only
verify_webhook_any_mode(mode, token, challenge) ==
  IF token = META_VERIFY_TOKEN THEN PlainTextResponse(challenge, 200)
  ELSE HTTPException(403, "Verification failed")

verify_webhook(mode, token, challenge) ==
  LET AUTHORIZED == (token = META_VERIFY_TOKEN)
  IN IF mode = "subscribe" /\ AUTHORIZED THEN PlainTextResponse(challenge, 200)
     ELSE HTTPException(403, "Verification failed")

\* ------------------------------------------------ verify_webhook_signature
startswith(signature, prefix) == Len(signature) > 0 /\ signature[1] = prefix

\* the pieces up to the next occurrence of the prefix
RECURSIVE UpToPrefix(_)
UpToPrefix(pieces) ==
  IF pieces = << >> \/ Head(pieces) = Prefix THEN << >>
  ELSE <<Head(pieces)>> \o UpToPrefix(Tail(pieces))

\* signature.split("sha256=")[1] of a header that starts with the prefix
received_signature(signature) == UpToPrefix(Tail(signature))

\* hmac.new(META_APP_SECRET, payload, sha256).hexdigest()
expected_signature(payload) == <<payload.mac>>

\* hmac.compare_digest raises TypeError on a str with a non-ASCII character
compare_digest_raises(received) == \E i \in DOMAIN received : received[i] = NonAscii

verify_webhook_signature(payload, signature) ==
  /\ startswith(signature, Prefix)
  /\ expected_signature(payload) = received_signature(signature)

\* verify_webhook_signature ends in an exception instead of a result
verify_raises(signature) ==
  startswith(signature, Prefix) /\ compare_digest_raises(received_signature(signature))

\* ------------------------------------------------ process_comment_webhook
\* the counters the handler's session holds of an automation row
HandlerView(row) ==
  [total_comments_processed |-> row.total_comments_processed,
   total_dms_pending |-> row.total_dms_pending,
   message_text |-> row.message_text]

\* the automations query without its media filter
RECURSIVE ActiveAutomations(_, _)
ActiveAutomations(media_id, a) ==
  IF a \notin AutomationIds THEN << >>
  ELSE (IF automations[a].status = "active" THEN <<a>> ELSE << >>)
       \o ActiveAutomations(media_id, a + 1)

\* ids of the rows of "Automation.instagram_media_id == media_id, status == ACTIVE"
RECURSIVE MatchingAutomations(_, _)
MatchingAutomations(media_id, a) ==
  IF a \notin AutomationIds THEN << >>
  ELSE (IF automations[a].instagram_media_id = media_id /\ automations[a].status = "active"
        THEN <<a>> ELSE << >>) \o MatchingAutomations(media_id, a + 1)

\* the existing_dm query with SENT as its only status
existing_dm_sent_only(a, commenter_id) ==
  \E k \in DOMAIN dm_logs :
     /\ dm_logs[k].automation_id = a
     /\ dm_logs[k].instagram_commenter_id = commenter_id
     /\ dm_logs[k].dm_status = "sent"

\* the existing_dm query: a row of (automation, commenter) that is SENT or PENDING
existing_dm(a, commenter_id) ==
  \E k \in DOMAIN dm_logs :
     /\ dm_logs[k].automation_id = a
     /\ dm_logs[k].instagram_commenter_id = commenter_id
     /\ dm_logs[k].dm_status \in {"sent", "pending"}

\* the handler at the end of the loop over the automations: what is left is
\* lines 86-87
Finishing(hs) == [IdleHandler EXCEPT !.pc = "finish", !.webhook_log = hs.webhook_log]

\* a loop that ends after its first automation
FirstAutomationOnly(hs) == Finishing(hs)

\* the handler moves to the next automation of its list, or leaves the loop
NextAutomation(hs) ==
  IF Len(hs.todo) <= 1 THEN Finishing(hs)
  ELSE [hs EXCEPT !.pc = "match", !.todo = Tail(hs.todo),
                  !.matched_keyword = NoKeyword, !.dm_log_id = 0]

\* replicas and workers are interchangeable: of the free ones, the first in
\* name order takes the next request or message
FirstFree(procs, p, all) ==
  /\ procs[p].pc = "idle"
  /\ \A q \in all : procs[q].pc = "idle" => ~(q < p)

\* the handler has answered the request with the status code
Responded(status) == [IdleHandler EXCEPT !.response = status]

\* the WebhookLog row of lines 61-65
WebhookLog(payload) == [payload |-> payload.mac, processed |-> FALSE, error_message |-> ""]

\* a row that is added to the session and never committed
add_without_commit(table, row) == table

\* db.add(row) and db.commit()
add_and_commit(table, row) == Append(table, row)

\* process_dm_event with an exception for every event
process_dm_event_unsupported(event) == "raise"

\* process_dm_event: without sender.id it returns at once; a story reply
\* returns; a text message and a reaction pass; nothing is read or written
process_dm_event(event) ==
  IF ~event.sender THEN "return"
  ELSE IF event.message = "story_reply" THEN "return"
  ELSE "return"

\* the head of process_comment_webhook: "if not all([comment_id, media_id,
\* commenter_id]): return"
incomplete(value) == ~(value.id /\ value.media /\ value.from)

\* lines 75-84 for one element ahead of the comment event: messaging elements
\* go to process_dm_event, changes of another field are passed over,
\* change["value"] of a change without it raises KeyError
process_element(element) ==
  IF element.list = "messaging" THEN process_dm_event(element)
  ELSE IF element.field # "comments" THEN "skip"
  ELSE IF ~element.value THEN "raise"
  ELSE IF incomplete(element) THEN "return"
  ELSE "evaluate"

\* one of the elements raises: the loop of line 71 ends in the except block
Raises(elements) == \E i \in DOMAIN elements : process_element(elements[i]) = "raise"

\* handle_instagram_webhook up to the complete comment event: the signature,
\* the JSON parse, the audit row and its commit, the elements ahead of the
\* comment event, and for the comment event the automations query of
\* process_comment_webhook
Receive(h, req) ==
  /\ FirstFree(handlers, h, Handlers)
  /\ webhooks < MaxWebhooks
  /\ webhooks' = webhooks + 1
  /\ IF verify_raises(req.signature)
     THEN \* the TypeError reaches global_exception_handler
          /\ handlers' = [handlers EXCEPT ![h] = Responded(500)]
          /\ UNCHANGED webhook_logs
     ELSE IF ~verify_webhook_signature(req.body, req.signature)
     THEN /\ handlers' = [handlers EXCEPT ![h] = Responded(403)]
          /\ UNCHANGED webhook_logs
     ELSE IF ~req.body.json
     THEN /\ handlers' = [handlers EXCEPT ![h] = Responded(400)]
          /\ UNCHANGED webhook_logs
     ELSE /\ webhook_logs' = add_and_commit(webhook_logs, WebhookLog(req.body))
          /\ LET started == [IdleHandler EXCEPT !.webhook_log = Len(webhook_logs) + 1]
                 todo == MatchingAutomations(Events[req.body.event].media_id, 1)
             IN handlers' = [handlers EXCEPT ![h] =
                  IF Raises(req.body.before) THEN [started EXCEPT !.pc = "except"]
                  ELSE IF req.body.event = 0 THEN Finishing(started)
                  ELSE IF todo = << >> THEN Finishing(started)
                  ELSE [started EXCEPT !.pc = "match", !.event = req.body.event, !.todo = todo,
                           !.loaded = [a \in AutomationIds |-> HandlerView(automations[a])]]]
  /\ UNCHANGED <<call, now, user, automations, dm_logs, trackers, queue, workers,
                 redelivered, delivered, attempts, sends_today>>

\* one pass of the loop body up to the existing_dm query
Evaluate(h) ==
  LET hs == handlers[h]
      a == Head(hs.todo)
      ev == Events[hs.event]
      \* automation.user comes from the session once it is loaded
      u == IF hs.user_loaded THEN hs.user ELSE user
      \* an expired instance is reloaded at its first attribute access
      seen == [(IF hs.expired THEN [hs EXCEPT !.loaded[a] = HandlerView(automations[a])] ELSE hs)
                 EXCEPT !.user_loaded = TRUE, !.user = u]
      kw == check_keyword_match(ev.text, automations[a].keywords, automations[a].case_sensitive)
  IN /\ hs.pc = "match"
     /\ IF ~can_use_automation(u, now)
        THEN /\ automations' = [automations EXCEPT ![a].status = "disabled"]
             /\ handlers' = [handlers EXCEPT ![h] =
                  NextAutomation([seen EXCEPT !.expired = TRUE, !.user_loaded = FALSE,
                                              !.user = << >>])]
        ELSE /\ UNCHANGED automations
             /\ handlers' = [handlers EXCEPT ![h] =
                  IF Falsy(kw) \/ existing_dm(a, ev.commenter_id)
                  THEN NextAutomation(seen)
                  ELSE [seen EXCEPT !.pc = "insert", !.matched_keyword = kw]]
     /\ UNCHANGED <<now, user, dm_logs, trackers, queue, workers, webhooks, webhook_logs, call,
                    redelivered, delivered, attempts, sends_today>>

NewDMLog(a, ev, kw, text) ==
  [ user_id |-> automations[a].user_id, automation_id |-> a,
    instagram_commenter_id |-> ev.commenter_id, comment_id |-> ev.comment_id,
    matched_keyword |-> kw, message_sent |-> text, dm_status |-> "pending",
    instagram_message_id |-> "", sent_at |-> NoDate, error_message |-> "", retry_count |-> 0 ]

\* db.add(dm_log), the two counters, db.commit(), db.refresh(dm_log)
Insert(h) ==
  LET hs == handlers[h]
      a == Head(hs.todo)
  IN /\ hs.pc = "insert"
     /\ dm_logs' = Append(dm_logs, NewDMLog(a, Events[hs.event], hs.matched_keyword,
                                            hs.loaded[a].message_text))
     /\ delivered' = Append(delivered, 0)
     /\ attempts' = Append(attempts, 0)
     /\ automations' = [automations EXCEPT
          ![a].total_comments_processed = hs.loaded[a].total_comments_processed + 1,
          ![a].total_dms_pending = hs.loaded[a].total_dms_pending + 1]
     /\ handlers' = [handlers EXCEPT ![h] =
          [hs EXCEPT !.pc = "enqueue", !.expired = TRUE, !.user_loaded = FALSE, !.user = << >>,
                     !.dm_log_id = Len(dm_logs) + 1]]
     /\ UNCHANGED <<now, user, trackers, queue, workers, webhooks, webhook_logs, call, redelivered, sends_today>>

\* process_comment_and_send_dm.delay(dm_log.id)
Enqueue(h) ==
  LET hs == handlers[h]
  IN /\ hs.pc = "enqueue"
     /\ queue' = queue \cup {[id |-> hs.dm_log_id, retries |-> 0, countdown |-> 0]}
     /\ handlers' = [handlers EXCEPT ![h] = NextAutomation(hs)]
     /\ UNCHANGED <<now, user, automations, dm_logs, trackers, workers, webhooks, webhook_logs, call,
                    redelivered, delivered, attempts, sends_today>>

\* lines 86-94 without an exception: webhook_log.processed = True, db.commit()
\* and the acknowledgment
Finish(h) ==
  LET hs == handlers[h]
  IN /\ hs.pc = "finish"
     /\ webhook_logs' = [webhook_logs EXCEPT ![hs.webhook_log].processed = TRUE]
     /\ handlers' = [handlers EXCEPT ![h] = Responded(200)]
     /\ UNCHANGED <<call, now, user, automations, dm_logs, trackers, queue, workers, webhooks,
                    redelivered, delivered, attempts, sends_today>>

\* the database rejects the flush of db.commit() at line 206 (a value longer
\* than its column, a lost connection); the session's transaction is rolled
\* back and the session refuses further work until db.rollback()
InsertFails(h) ==
  /\ handlers[h].pc = "insert"
  /\ handlers' = [handlers EXCEPT ![h] =
       [Finishing(handlers[h]) EXCEPT !.pc = "except", !.broken = TRUE]]
  /\ UNCHANGED <<now, user, automations, dm_logs, trackers, queue, workers, webhooks,
                 webhook_logs, call, redelivered, delivered, attempts, sends_today>>

\* delay() raises: the broker is unreachable
EnqueueFails(h) ==
  /\ handlers[h].pc = "enqueue"
  /\ handlers' = [handlers EXCEPT ![h] = [Finishing(handlers[h]) EXCEPT !.pc = "except"]]
  /\ UNCHANGED <<now, user, automations, dm_logs, trackers, queue, workers, webhooks,
                 webhook_logs, call, redelivered, delivered, attempts, sends_today>>

\* the except block of lines 89-92 and the acknowledgment; on a session that
\* needs a rollback its db.commit() raises and the request ends in
\* global_exception_handler
Except(h) ==
  LET hs == handlers[h]
  IN /\ hs.pc = "except"
     /\ IF hs.broken
        THEN /\ UNCHANGED webhook_logs
             /\ handlers' = [handlers EXCEPT ![h] = Responded(500)]
        ELSE /\ webhook_logs' = [webhook_logs EXCEPT ![hs.webhook_log].error_message = "error"]
             /\ handlers' = [handlers EXCEPT ![h] = Responded(200)]
     /\ UNCHANGED <<call, now, user, automations, dm_logs, trackers, queue, workers, webhooks,
                    redelivered, delivered, attempts, sends_today>>

\* ------------------------------------------------------------ rate limiter
\* rows of "RateLimitTracker.window_end > now"
ActiveTrackers == {k \in DOMAIN trackers : trackers[k].window_end > now}

\* what .first() may return: the query has no ORDER BY, so any row of the
\* result; 0 stands for None
First(rows) == IF rows = {} THEN {0} ELSE rows

\* check_rate_limit(user.id, "dm_send", db), given the row .first() returned
check_rate_limit(tracker) ==
  ~(tracker # 0 /\ trackers[tracker].count >= DM_RATE_LIMIT_PER_DAY)

\* check_rate_limit called on its own: the row .first() returned and the result
CheckRateLimit ==
  /\ \E tracker \in First(ActiveTrackers) :
       call' = [op |-> "check_rate_limit", tracker |-> tracker,
                result |-> check_rate_limit(tracker)]
  /\ UNCHANGED <<now, user, automations, dm_logs, trackers, queue, handlers, workers,
                 webhooks, webhook_logs, redelivered, delivered, attempts, sends_today>>

\* ------------------------------------------------------------------ Celery
\* Task.retry(countdown=...): sends the message of the next attempt unless
\* request.retries + 1 exceeds max_retries, and raises in both cases
retry(job, countdown) ==
  IF job.retries + 1 > max_retries THEN queue
  ELSE queue \cup {[id |-> job.id, retries |-> job.retries + 1, countdown |-> countdown]}

\* -------------------------------------------- process_comment_and_send_dm
\* the error_message texts of the three guard outcomes
DuplicateReason == "Duplicate: DM already sent for this comment"
EntitlementReason == "Subscription expired"
CredentialReason == "Instagram not connected"

\* the duplicate check keyed on the automation as well
already_sent_same_automation(id) ==
  \E k \in DOMAIN dm_logs :
     /\ dm_logs[k].comment_id = dm_logs[id].comment_id
     /\ dm_logs[k].automation_id = dm_logs[id].automation_id
     /\ dm_logs[k].dm_status = "sent"
     /\ k # id

\* the duplicate check: another row of the same comment that is SENT
already_sent(id) ==
  \E k \in DOMAIN dm_logs :
     /\ dm_logs[k].comment_id = dm_logs[id].comment_id
     /\ dm_logs[k].dm_status = "sent"
     /\ k # id

\* the text the automation holds now
automation_message_text(id) == automations[dm_logs[id].automation_id].message_text

\* message_text=dm_log.message_sent of the send_message call
message_text(id) == dm_logs[id].message_sent

\* the counters the worker's session holds of an automation row
WorkerView(row) ==
  [total_dms_sent |-> row.total_dms_sent, total_dms_failed |-> row.total_dms_failed,
   total_dms_pending |-> row.total_dms_pending]

\* lines 53-128 for the message job: the loads and the four guards.  ack tells
\* whether the broker drops the message on delivery.
Start(w, job, ack) ==
  LET id == job.id
      a == dm_logs[id].automation_id
      ws == [IdleWorker EXCEPT !.job = job, !.dm_status = dm_logs[id].dm_status,
                               !.retry_count = dm_logs[id].retry_count]
      dequeued == IF ack THEN queue \ {job} ELSE queue
  IN /\ FirstFree(workers, w, Workers)
     /\ job \in queue
     /\ \E tracker \in First(ActiveTrackers) :
          IF dm_logs[id].comment_id # "" /\ already_sent(id)
          THEN /\ workers' = [workers EXCEPT ![w] =
                    [ws EXCEPT !.pc = "commit_failed",
                               !.error_message = DuplicateReason]]
               /\ queue' = dequeued
          ELSE IF ~can_use_automation(user, now)
          THEN /\ workers' = [workers EXCEPT ![w] =
                    [ws EXCEPT !.pc = "commit_failed", !.error_message = EntitlementReason,
                               !.penalize = TRUE, !.automation = WorkerView(automations[a])]]
               /\ queue' = dequeued
          ELSE IF ~check_rate_limit(tracker)
          THEN \* raise self.retry(countdown=3600); the handler rolls back
               /\ workers' = [workers EXCEPT ![w] = IdleWorker]
               /\ queue' = (retry(job, DeferCountdown) \ (IF ack THEN {job} ELSE {}))
          ELSE IF user.encrypted_access_token = NoToken
          THEN /\ workers' = [workers EXCEPT ![w] =
                    [ws EXCEPT !.pc = "commit_failed", !.error_message = CredentialReason,
                               !.penalize = TRUE, !.automation = WorkerView(automations[a])]]
               /\ queue' = dequeued
          ELSE \* lines 112-128: the sanitizing keeps "" and a clean token as they are
               /\ workers' = [workers EXCEPT ![w] =
                    [ws EXCEPT !.pc = "sending", !.automation = WorkerView(automations[a]),
                               !.access_token = decrypt_token(user.encrypted_access_token),
                               !.message_text = message_text(id)]]
               /\ queue' = dequeued
     /\ UNCHANGED <<now, user, automations, dm_logs, trackers, handlers, webhooks, webhook_logs, call,
                    delivered, attempts, sends_today>>

\* a worker takes a message off the queue
Consume(w) ==
  /\ \E job \in queue : Start(w, job, TRUE)
  /\ UNCHANGED redelivered

\* a worker takes a message the broker will deliver once more
ConsumeRedelivered(w) ==
  /\ redelivered < MaxRedeliveries
  /\ redelivered' = redelivered + 1
  /\ \E job \in queue : Start(w, job, FALSE)

\* db.commit() of the duplicate, entitlement and credential outcomes
CommitFailed(w) ==
  LET ws == workers[w]
      id == ws.job.id
      a == dm_logs[id].automation_id
  IN /\ ws.pc = "commit_failed"
     /\ dm_logs' = [dm_logs EXCEPT ![id].dm_status = "failed",
                                   ![id].error_message = ws.error_message]
     /\ automations' =
          IF ws.penalize
          THEN [automations EXCEPT
                  ![a].total_dms_failed = ws.automation.total_dms_failed + 1,
                  ![a].total_dms_pending = ws.automation.total_dms_pending - 1]
          ELSE automations
     /\ workers' = [workers EXCEPT ![w] = IdleWorker]
     /\ UNCHANGED <<now, user, trackers, queue, handlers, webhooks, webhook_logs, call, redelivered,
                    delivered, attempts, sends_today>>

\* client.send_message raises.  The except block marks the row FAILED and
\* counts; below the ceiling it raises self.retry(countdown=300 * retry_count,
\* exc=e), which the outer handler answers with db.rollback(); at the ceiling
\* line 181 commits.
SendFails(w) ==
  LET ws == workers[w]
      id == ws.job.id
      a == dm_logs[id].automation_id
      retry_count == ws.retry_count + 1
  IN /\ ws.pc = "sending"
     /\ attempts' = [attempts EXCEPT ![id] = @ + 1]
     /\ workers' = [workers EXCEPT ![w] = IdleWorker]
     /\ IF retry_count < RetryCeiling
        THEN /\ queue' = retry(ws.job, BackoffBase * retry_count)
             /\ UNCHANGED <<dm_logs, automations>>
        ELSE /\ dm_logs' = [dm_logs EXCEPT ![id].dm_status = "failed",
                                           ![id].error_message = "send error",
                                           ![id].retry_count = retry_count]
             /\ automations' = [automations EXCEPT
                  ![a].total_dms_failed = ws.automation.total_dms_failed + 1,
                  ![a].total_dms_pending = ws.automation.total_dms_pending - 1]
             /\ UNCHANGED queue
     /\ UNCHANGED <<now, user, trackers, handlers, webhooks, webhook_logs, call, redelivered, delivered, sends_today>>

\* client.send_message returns (the platform answers 2xx only to a request
\* that carries a token); lines 141-148 change the session's rows and
\* track_rate_limit runs its query
SendSucceeds(w) ==
  LET ws == workers[w]
      id == ws.job.id
  IN /\ ws.pc = "sending"
     /\ ws.access_token # ""
     /\ attempts' = [attempts EXCEPT ![id] = @ + 1]
     /\ delivered' = [delivered EXCEPT ![id] = @ + 1]
     /\ sends_today' = sends_today + 1
     /\ \E tracker \in First(ActiveTrackers) :
          workers' = [workers EXCEPT ![w] =
            [ws EXCEPT !.pc = "tracking", !.tracker = tracker,
                       !.count = IF tracker = 0 THEN 0 ELSE trackers[tracker].count]]
     /\ UNCHANGED <<now, user, automations, dm_logs, trackers, queue, handlers, webhooks, webhook_logs, call,
                    redelivered>>

\* the attributes class Automation gives its instances: the columns and the
\* two relationships
AutomationAttributes ==
  {"id", "user_id", "name", "media_type", "instagram_media_id", "keywords", "case_sensitive",
   "message_type", "message_text", "message_media_url", "status", "total_comments_processed",
   "total_dms_sent", "total_dms_failed", "total_dms_pending", "created_at", "updated_at",
   "user", "dm_logs"}

\* the text of str(e) for the AttributeError of line 157
NoReplyOptions == "'Automation' object has no attribute 'comment_reply_options'"

\* the db.commit() of track_rate_limit: the tracker row with the count the
\* session computed from the row it read (tracker.count += 1), and with it the
\* SENT row and the counters the session holds
track_rate_limit(ws) ==
  LET id == ws.job.id
      a == dm_logs[id].automation_id
  IN [trackers |->
        IF ws.tracker # 0
        THEN [trackers EXCEPT ![ws.tracker].count = ws.count + 1]
        ELSE Append(trackers, [count |-> 1, window_end |-> now + WindowDays]),
      dm_logs |->
        [dm_logs EXCEPT ![id].dm_status = "sent", ![id].instagram_message_id = "mid",
                        ![id].sent_at = now],
      automations |->
        [automations EXCEPT
           ![a].total_dms_sent = ws.automation.total_dms_sent + 1,
           ![a].total_dms_pending = ws.automation.total_dms_pending - 1]]

\* track_rate_limit's commit and lines 155-181 after it.  Line 157 reads
\* automation.comment_reply_options outside the inner try: an attribute that
\* Automation does not have raises AttributeError into the except block of
\* line 165, which works on the rows as committed (the commit expired them):
\* below the ceiling self.retry(countdown=300 * retry_count, exc=e) and the
\* rollback of the outer handler, at the ceiling the commit of line 181.  With
\* the attribute, a failure of random.choice or reply_to_comment is logged at
\* line 163 and line 181 commits nothing new.
TrackCommit(w) ==
  LET ws == workers[w]
      id == ws.job.id
      a == dm_logs[id].automation_id
      committed == track_rate_limit(ws)
      retry_count == committed.dm_logs[id].retry_count + 1
  IN /\ ws.pc = "tracking"
     /\ trackers' = committed.trackers
     /\ IF "comment_reply_options" \in AutomationAttributes
        THEN /\ dm_logs' = committed.dm_logs
             /\ automations' = committed.automations
             /\ UNCHANGED queue
        ELSE IF retry_count < RetryCeiling
        THEN /\ dm_logs' = committed.dm_logs
             /\ automations' = committed.automations
             /\ queue' = retry(ws.job, BackoffBase * retry_count)
        ELSE /\ dm_logs' = [committed.dm_logs EXCEPT ![id].dm_status = "failed",
                                                     ![id].error_message = NoReplyOptions,
                                                     ![id].retry_count = retry_count]
             /\ automations' = [committed.automations EXCEPT
                  ![a].total_dms_failed = @ + 1,
                  ![a].total_dms_pending = @ - 1]
             /\ UNCHANGED queue
     /\ workers' = [workers EXCEPT ![w] = IdleWorker]
     /\ UNCHANGED <<now, user, handlers, webhooks, webhook_logs, call, redelivered, delivered,
                    attempts, sends_today>>

\* the worker process dies; its session's changes are lost with it
Crash(w) ==
  /\ workers[w].pc # "idle"
  /\ workers' = [workers EXCEPT ![w] = IdleWorker]
  /\ UNCHANGED <<now, user, automations, dm_logs, trackers, queue, handlers, webhooks, webhook_logs, call,
                 redelivered, delivered, attempts, sends_today>>

\* ------------------------------------------------------------- environment
Tick ==
  /\ now < MaxNow
  /\ now' = now + 1
  /\ sends_today' = 0
  /\ UNCHANGED <<user, automations, dm_logs, trackers, queue, handlers, workers,
                 webhooks, webhook_logs, call, redelivered, delivered, attempts>>

\* POST /admin/users/{user_id}/suspend
suspend_user ==
  /\ user.is_active
  /\ user' = [user EXCEPT !.is_active = FALSE]
  /\ automations' = [a \in AutomationIds |-> [automations[a] EXCEPT !.status = "disabled"]]
  /\ UNCHANGED <<now, dm_logs, trackers, queue, handlers, workers,
                 webhooks, webhook_logs, call, redelivered, delivered, attempts, sends_today>>

\* message texts an owner gives an automation
Texts == {"hello", "bye"}

\* PUT /automations/{automation_id} with a new message_text
update_automation(a, text) ==
  /\ automations[a].message_text # text
  /\ automations' = [automations EXCEPT ![a].message_text = text]
  /\ UNCHANGED <<now, user, dm_logs, trackers, queue, handlers, workers,
                 webhooks, webhook_logs, call, redelivered, delivered, attempts, sends_today>>

\* POST /automations/{automation_id}/pause
pause_automation(a) ==
  /\ automations' = [automations EXCEPT ![a].status = "paused"]
  /\ UNCHANGED <<now, user, dm_logs, trackers, queue, handlers, workers,
                 webhooks, webhook_logs, call, redelivered, delivered, attempts, sends_today>>

\* ---------------------------------------------------------- specifications
\* The pipeline from an empty dm_logs table: one web replica, one worker.
PipelineHandlers == {1}
PipelineWorkers == {1}

Next ==
  \/ \E h \in PipelineHandlers, req \in SignedRequests : Receive(h, req)
  \/ \E h \in PipelineHandlers : Evaluate(h)
  \/ \E h \in PipelineHandlers : Insert(h)
  \/ \E h \in PipelineHandlers : Enqueue(h)
  \/ \E h \in PipelineHandlers : Finish(h)
  \/ \E w \in PipelineWorkers : Consume(w)
  \/ \E w \in PipelineWorkers : CommitFailed(w)
  \/ \E w \in PipelineWorkers : SendFails(w)
  \/ \E w \in PipelineWorkers : SendSucceeds(w)
  \/ \E w \in PipelineWorkers : TrackCommit(w)
  \/ Tick
  \/ suspend_user

Spec == Init /\ [][Next]_vars

\* The worker pool on the two records the comment c1 leaves behind once both
\* automations matched it: both pending, both jobs queued (DispatchStartReached
\* is that state in the pipeline).  The owner's window is one short of the
\* limit or at it.
QueuedRecords ==
  [a \in AutomationIds |->
     NewDMLog(a, Events[1],
              check_keyword_match(Events[1].text, InitAutomations[a].keywords,
                                  InitAutomations[a].case_sensitive),
              InitAutomations[a].message_text)]

InitDispatch ==
  /\ now = 0
  /\ \E tok \in Tokens :
       user = [is_active |-> TRUE, subscription_status |-> "trial",
               trial_end_date |-> TrialEnd, subscription_end_date |-> NoDate,
               encrypted_access_token |-> tok]
  /\ automations = [a \in AutomationIds |->
       [InitAutomations[a] EXCEPT !.total_comments_processed = 1, !.total_dms_pending = 1]]
  /\ dm_logs = QueuedRecords
  /\ \E n \in {PriorUsage, DM_RATE_LIMIT_PER_DAY} :
       /\ trackers = << [count |-> n, window_end |-> WindowDays] >>
       /\ sends_today = n
  /\ queue = {[id |-> id, retries |-> 0, countdown |-> 0] : id \in DOMAIN QueuedRecords}
  /\ handlers = [h \in Handlers |-> IF h = 1 THEN Responded(200) ELSE IdleHandler]
  /\ workers = [w \in Workers |-> IdleWorker]
  /\ webhooks = 1
  /\ webhook_logs = << [WebhookLog(CHOOSE b \in Bodies : b.event = 1) EXCEPT !.processed = TRUE] >>
  /\ call = NoCall
  /\ redelivered = 0
  /\ delivered = [id \in DOMAIN QueuedRecords |-> 0]
  /\ attempts = [id \in DOMAIN QueuedRecords |-> 0]

NextDispatch ==
  \/ \E w \in Workers : Consume(w)
  \/ \E w \in Workers : CommitFailed(w)
  \/ \E w \in Workers : SendFails(w)
  \/ \E w \in Workers : SendSucceeds(w)
  \/ \E w \in Workers : TrackCommit(w)
  \/ \E w \in Workers : Crash(w)
  \/ Tick
  \/ suspend_user

SpecDispatch == InitDispatch /\ [][NextDispatch]_vars

\* The same pool under a broker that may deliver a message more than once.
NextRedelivery ==
  \/ NextDispatch
  \/ \E w \in Workers : ConsumeRedelivered(w)

SpecRedelivery == InitDispatch /\ [][NextRedelivery]_vars

\* The same pool when no worker process is lost: every message taken off the
\* queue is run to the end of the task.
NextRetry ==
  \/ \E w \in Workers : Consume(w)
  \/ \E w \in Workers : CommitFailed(w)
  \/ \E w \in Workers : SendFails(w)
  \/ \E w \in Workers : SendSucceeds(w)
  \/ \E w \in Workers : TrackCommit(w)
  \/ Tick

SpecRetry == InitDispatch /\ [][NextRetry]_vars

\* The same pool while the owner pauses automations whose jobs are queued.
NextPause ==
  \/ NextDispatch
  \/ \E a \in AutomationIds : pause_automation(a)

SpecPause == InitDispatch /\ [][NextPause]_vars

\* Webhook ingestion alone: two web replicas, every request the endpoint can
\* get, and the faults of the database and the broker.
NextIngest ==
  \/ \E h \in Handlers, req \in Requests : Receive(h, req)
  \/ \E h \in Handlers : Evaluate(h)
  \/ \E h \in Handlers : Insert(h)
  \/ \E h \in Handlers : Enqueue(h)
  \/ \E h \in Handlers : Finish(h)
  \/ \E h \in Handlers : InsertFails(h)
  \/ \E h \in Handlers : EnqueueFails(h)
  \/ \E h \in Handlers : Except(h)
  \/ Tick
  \/ suspend_user

\* ingestion never reads the owner's token
InitIngest == Init /\ user.encrypted_access_token = "valid"

SpecIngest == InitIngest /\ [][NextIngest]_vars

\* Comment processing alone: two web replicas serving signed comment
\* webhooks, with the clock and the suspension of the owner.
NextComment ==
  \/ \E h \in Handlers, req \in SignedRequests : Receive(h, req)
  \/ \E h \in Handlers : Evaluate(h)
  \/ \E h \in Handlers : Insert(h)
  \/ \E h \in Handlers : Enqueue(h)
  \/ \E h \in Handlers : Finish(h)
  \/ Tick
  \/ suspend_user

\* the pipeline after the comment c1 was handled and the job of automation 1
\* delivered its DM at the last send the window allows: that row is sent, the
\* retries of its job were deferred until none was left, and the row of
\* automation 2 is still queued
SentStart ==
  /\ now = 0
  /\ user = [is_active |-> TRUE, subscription_status |-> "trial",
             trial_end_date |-> TrialEnd, subscription_end_date |-> NoDate,
             encrypted_access_token |-> "valid"]
  /\ automations = [a \in AutomationIds |->
       IF a = 1
       THEN [InitAutomations[a] EXCEPT !.total_comments_processed = 1, !.total_dms_sent = 1]
       ELSE [InitAutomations[a] EXCEPT !.total_comments_processed = 1, !.total_dms_pending = 1]]
  /\ dm_logs = [QueuedRecords EXCEPT ![1].dm_status = "sent",
                                     ![1].instagram_message_id = "mid", ![1].sent_at = 0]
  /\ trackers = << [count |-> PriorUsage + 1, window_end |-> WindowDays] >>
  /\ sends_today = PriorUsage + 1
  /\ queue = {[id |-> 2, retries |-> 0, countdown |-> 0]}
  /\ handlers = [h \in Handlers |-> IF h = 1 THEN Responded(200) ELSE IdleHandler]
  /\ workers = [w \in Workers |-> IdleWorker]
  /\ webhooks = 1
  /\ webhook_logs = << [WebhookLog(CHOOSE b \in Bodies : b.event = 1) EXCEPT !.processed = TRUE] >>
  /\ call = NoCall
  /\ redelivered = 0
  /\ delivered = <<1, 0>>
  /\ attempts = <<1, 0>>

InitComment == InitIngest \/ SentStart

SpecComment == InitComment /\ [][NextComment]_vars

\* The pipeline while the owner edits the message texts: one web replica, one
\* worker, no clock.
EditRequests == {req \in SignedRequests : req.body.event = 1}

NextEdit ==
  \/ \E h \in PipelineHandlers, req \in EditRequests : Receive(h, req)
  \/ \E h \in PipelineHandlers : Evaluate(h)
  \/ \E h \in PipelineHandlers : Insert(h)
  \/ \E h \in PipelineHandlers : Enqueue(h)
  \/ \E h \in PipelineHandlers : Finish(h)
  \/ \E w \in PipelineWorkers : Consume(w)
  \/ \E w \in PipelineWorkers : CommitFailed(w)
  \/ \E w \in PipelineWorkers : SendFails(w)
  \/ \E w \in PipelineWorkers : SendSucceeds(w)
  \/ \E w \in PipelineWorkers : TrackCommit(w)
  \/ \E a \in AutomationIds, text \in Texts : update_automation(a, text)

SpecEdit == InitIngest /\ [][NextEdit]_vars

\* the state SpecDispatch starts from is one the pipeline reaches
DispatchStartReached ==
  /\ dm_logs = QueuedRecords
  /\ \A h \in Handlers : handlers[h].pc = "idle"
  /\ queue = {[id |-> id, retries |-> 0, countdown |-> 0] : id \in DOMAIN QueuedRecords}
  /\ \A a \in AutomationIds : automations[a].total_dms_pending = 1

\* comment texts and keywords: empty, blank, a word in three spellings, and
\* a word with a sharp s in its lower-case and upper-case spelling
Words ==
  { << >>, <<" ">>, <<"b", "u", "y">>, <<"B", "u", "y">>, <<"B", "U", "Y">>,
    <<"h", "i">>, <<"b", SharpS>>, <<"B", "S", "S">> }

\* longest keyword list
MaxKeywords == 2

KeywordLists ==
  UNION { [1..n -> Words \ {<<"h", "i">>}] : n \in 0..MaxKeywords }

\* check_keyword_match called on its own, a first time or once more with the
\* arguments of the last call
Match(text, keywords, case_sensitive) ==
  /\ \/ call = NoCall
     \/ /\ call.op = "check_keyword_match"
        /\ call.text = text /\ call.keywords = keywords
        /\ call.case_sensitive = case_sensitive
  /\ call' = [op |-> "check_keyword_match", text |-> text, keywords |-> keywords,
              case_sensitive |-> case_sensitive,
              result |-> check_keyword_match(text, keywords, case_sensitive)]
  /\ UNCHANGED <<now, user, automations, dm_logs, trackers, queue, handlers, workers,
                 webhooks, webhook_logs, redelivered, delivered, attempts, sends_today>>

NextMatch ==
  \E text \in Words, keywords \in KeywordLists, case_sensitive \in BOOLEAN :
     Match(text, keywords, case_sensitive)

SpecMatch == InitIngest /\ [][NextMatch]_vars

\* GET /webhooks/instagram: the route reads the query and no row
VerifyWebhook(mode, token, challenge) ==
  /\ call' = [op |-> "verify_webhook", mode |-> mode, token |-> token,
              challenge |-> challenge, response |-> verify_webhook(mode, token, challenge)]
  /\ UNCHANGED <<now, user, automations, dm_logs, trackers, queue, handlers, workers,
                 webhooks, webhook_logs, redelivered, delivered, attempts, sends_today>>

\* The subscription handshake beside one comment webhook in a replica.
NextHandshake ==
  \/ \E mode \in Modes, token \in VerifyTokens, challenge \in Challenges :
        call = NoCall /\ VerifyWebhook(mode, token, challenge)
  \/ \E h \in PipelineHandlers, req \in EditRequests : Receive(h, req)
  \/ \E h \in PipelineHandlers : Evaluate(h)
  \/ \E h \in PipelineHandlers : Insert(h)
  \/ \E h \in PipelineHandlers : Enqueue(h)
  \/ \E h \in PipelineHandlers : Finish(h)

SpecHandshake == InitIngest /\ [][NextHandshake]_vars

\* verify_webhook_signature(body, signature) called on its own: a result, or
\* the TypeError of compare_digest
VerifySignature(req) ==
  /\ call' = [op |-> "verify_webhook_signature", signature |-> req.signature,
              payload |-> req.body,
              raised |-> verify_raises(req.signature),
              result |-> /\ ~verify_raises(req.signature)
                         /\ verify_webhook_signature(req.body, req.signature)]
  /\ UNCHANGED <<now, user, automations, dm_logs, trackers, queue, handlers, workers,
                 webhooks, webhook_logs, redelivered, delivered, attempts, sends_today>>

\* The signature check on every header beside one comment webhook in a replica.
NextSignature ==
  \/ \E req \in Requests : call = NoCall /\ VerifySignature(req)
  \/ \E h \in PipelineHandlers, req \in EditRequests : Receive(h, req)
  \/ \E h \in PipelineHandlers : Evaluate(h)
  \/ \E h \in PipelineHandlers : Insert(h)
  \/ \E h \in PipelineHandlers : Enqueue(h)
  \/ \E h \in PipelineHandlers : Finish(h)

SpecSignature == InitIngest /\ [][NextSignature]_vars

\* Two web replicas on envelopes of every shape, each under its signature,
\* and the suspension of the owner.
NextEnvelope ==
  \/ \E h \in Handlers, req \in EnvelopeRequests : Receive(h, req)
  \/ \E h \in Handlers : Evaluate(h)
  \/ \E h \in Handlers : Insert(h)
  \/ \E h \in Handlers : Enqueue(h)
  \/ \E h \in Handlers : Finish(h)
  \/ \E h \in Handlers : Except(h)
  \/ suspend_user

SpecEnvelope == InitIngest /\ [][NextEnvelope]_vars

\* The rate limiter on the tables track_rate_limit leaves behind: no window,
\* one, or the two that concurrent first uses of a day create, each expired or
\* active, new, one short of the limit or at it.
TrackerRows ==
  { [count |-> c, window_end |-> e] :
      c \in {1, PriorUsage, DM_RATE_LIMIT_PER_DAY}, e \in {0, WindowDays} }

InitLimiter ==
  /\ now = 0
  /\ user = [is_active |-> TRUE, subscription_status |-> "trial",
             trial_end_date |-> TrialEnd, subscription_end_date |-> NoDate,
             encrypted_access_token |-> "valid"]
  /\ automations = InitAutomations
  /\ dm_logs = << >>
  /\ trackers \in {<< >>} \cup {<<r>> : r \in TrackerRows}
                         \cup {<<r1, r2>> : r1 \in TrackerRows, r2 \in TrackerRows}
  /\ sends_today = 0
  /\ queue = {}
  /\ handlers = [h \in Handlers |-> IdleHandler]
  /\ workers = [w \in Workers |-> IdleWorker]
  /\ webhooks = 0
  /\ webhook_logs = << >>
  /\ call = NoCall
  /\ redelivered = 0
  /\ delivered = << >>
  /\ attempts = << >>

NextLimiter ==
  \/ CheckRateLimit
  \/ Tick

SpecLimiter == InitLimiter /\ [][NextLimiter]_vars

\* ------------------------------------------------------------------ claims
Live(k) == dm_logs[k].dm_status \in {"pending", "sent"}

\* C1: in every reachable state, for every automation and commenter at most
\* one dm_logs row of that pair is pending or sent.
C1_OneLivePerPair ==
  \A i, k \in DOMAIN dm_logs :
     ( /\ dm_logs[i].automation_id = dm_logs[k].automation_id
       /\ dm_logs[i].instagram_commenter_id = dm_logs[k].instagram_commenter_id
       /\ Live(i) /\ Live(k) ) => i = k

\* C2: in every reachable state, for every comment identifier at most one
\* dm_logs row carrying it is sent.
C2_OneSentPerComment ==
  \A i, k \in DOMAIN dm_logs :
     ( /\ dm_logs[i].comment_id = dm_logs[k].comment_id
       /\ dm_logs[i].dm_status = "sent" /\ dm_logs[k].dm_status = "sent" ) => i = k

\* no worker is running a job of the row, and no message of it waits
Settled(id) ==
  /\ \A w \in Workers : workers[w].job.id # id
  /\ \A job \in queue : job.id # id

\* C3: a row whose send_message calls failed 3 times in a row, with no
\* redelivery involved, is persisted failed with retry_count 3, and no 4th
\* call is made or scheduled for it.
C3_RetryCeiling ==
  \A id \in DOMAIN dm_logs :
     (redelivered = 0 /\ delivered[id] = 0 /\ attempts[id] >= 3 /\ \A w \in Workers : workers[w].job.id # id)
       => /\ dm_logs[id].dm_status = "failed"
          /\ dm_logs[id].retry_count = 3
          /\ attempts[id] = 3
          /\ Settled(id)

\* the step in which worker w gets an error from send_message for row id
SendError(w, id) ==
  /\ workers[w].pc = "sending"
  /\ workers[w].job.id = id
  /\ attempts'[id] = attempts[id] + 1
  /\ delivered'[id] = delivered[id]

\* C4: after every send_message error the persisted row is failed with the
\* error stored and retry_count one higher, the automation's failed counter is
\* one higher and its pending counter one lower; the persisted retry_count
\* equals the number of failed calls made for the row.
C4_FailureIsPersisted ==
  [][\A w \in Workers : \A id \in DOMAIN dm_logs :
       SendError(w, id) =>
         LET a == dm_logs[id].automation_id
         IN /\ dm_logs'[id].dm_status = "failed"
            /\ dm_logs'[id].error_message # ""
            /\ dm_logs'[id].retry_count = dm_logs[id].retry_count + 1
            /\ dm_logs'[id].retry_count = attempts'[id] - delivered'[id]
            /\ automations'[a].total_dms_failed = automations[a].total_dms_failed + 1
            /\ automations'[a].total_dms_pending = automations[a].total_dms_pending - 1]_vars

\* worker w starts the message job
Starts(w, job) == \E ack \in BOOLEAN : Start(w, job, ack)

\* another row of the same comment is sent
OtherSent(id) ==
  \E k \in DOMAIN dm_logs :
     k # id /\ dm_logs[k].comment_id = dm_logs[id].comment_id /\ dm_logs[k].dm_status = "sent"

\* the owner's active window is at or above the limit
WindowFull ==
  /\ ActiveTrackers # {}
  /\ \A k \in ActiveTrackers : trackers[k].count >= DM_RATE_LIMIT_PER_DAY

\* C5: a job that reaches the rate-limit guard while the owner's active window
\* is at or above DM_RATE_LIMIT_PER_DAY makes no send_message call, leaves the
\* row and the counters as they are, and is rescheduled with a delay.
C5_DeferralReschedules ==
  [][\A w \in Workers : \A job \in queue :
       (Starts(w, job) /\ ~OtherSent(job.id) /\ can_use_automation(user, now) /\ WindowFull)
         => /\ attempts' = attempts
            /\ dm_logs' = dm_logs
            /\ automations' = automations
            /\ workers'[w] = IdleWorker
            /\ \E again \in queue' :
                 again.id = job.id /\ again.retries = job.retries + 1 /\ again.countdown > 0]_vars

\* C6: the DMs sent for the owner within one day (one rate-limit window) never
\* exceed DM_RATE_LIMIT_PER_DAY.
C6_QuotaRespected == sends_today <= DM_RATE_LIMIT_PER_DAY

\* C7: a job that starts while another row of the same comment is sent
\* resolves its row to failed with the duplicate reason; it makes no
\* send_message call, schedules no retry and leaves the counters as they are.
C7_DuplicateSuppressed ==
  [][\A w \in Workers :
       /\ \A job \in queue :
            (Starts(w, job) /\ OtherSent(job.id))
              => /\ workers'[w].pc = "commit_failed"
                 /\ workers'[w].error_message = DuplicateReason
                 /\ attempts' = attempts
                 /\ queue' \subseteq queue
       /\ (workers[w].error_message = DuplicateReason /\ workers'[w] # workers[w])
              => /\ attempts' = attempts
                 /\ queue' = queue
                 /\ automations' = automations
                 /\ trackers' = trackers
       /\ (CommitFailed(w) /\ workers[w].error_message = DuplicateReason)
              => LET id == workers[w].job.id
                 IN /\ dm_logs'[id].dm_status = "failed"
                    /\ dm_logs'[id].error_message = DuplicateReason]_vars

\* a row was suppressed as a duplicate of a sent one: no DM went out for it
\* and its automation still counts it as pending
C7_Witness ==
  \E id \in DOMAIN dm_logs :
     /\ OtherSent(id)
     /\ dm_logs[id].dm_status = "failed"
     /\ dm_logs[id].error_message = DuplicateReason
     /\ attempts[id] = 0
     /\ automations[dm_logs[id].automation_id].total_dms_pending = 1
     /\ automations[dm_logs[id].automation_id].total_dms_failed = 0

\* the owner is not entitled: account inactive, or trial or subscription end passed
NotEntitled ==
  \/ ~user.is_active
  \/ user.subscription_status = "trial" /\ now > user.trial_end_date
  \/ user.subscription_status = "active" /\ now > user.subscription_end_date

\* C8: a job that runs when the owner is no longer entitled resolves its row
\* to failed with the entitlement reason and, in the one commit of that
\* outcome, adds one to the failed counter and takes one from the pending
\* counter of the automation row it loaded; it makes no send_message call and
\* schedules no retry.
C8_EntitlementGate ==
  [][\A w \in Workers :
       /\ \A job \in queue :
            (Starts(w, job) /\ ~OtherSent(job.id) /\ NotEntitled)
              => /\ workers'[w].pc = "commit_failed"
                 /\ workers'[w].error_message = EntitlementReason
                 /\ workers'[w].automation = WorkerView(automations[dm_logs[job.id].automation_id])
                 /\ attempts' = attempts
                 /\ queue' \subseteq queue
                 /\ automations' = automations
       /\ (workers[w].error_message = EntitlementReason /\ workers'[w] # workers[w])
              => /\ attempts' = attempts
                 /\ queue' = queue
                 /\ trackers' = trackers
                 /\ workers'[w] = IdleWorker
       /\ (CommitFailed(w) /\ workers[w].error_message = EntitlementReason)
              => LET id == workers[w].job.id
                     a == dm_logs[id].automation_id
                 IN /\ dm_logs'[id].dm_status = "failed"
                    /\ dm_logs'[id].error_message = EntitlementReason
                    /\ automations'[a].total_dms_failed = workers[w].automation.total_dms_failed + 1
                    /\ automations'[a].total_dms_pending = workers[w].automation.total_dms_pending - 1
                    /\ automations'[a].total_dms_sent = automations[a].total_dms_sent]_vars

\* a row queued while the owner was entitled failed at the entitlement guard
\* after the trial ended, with no send_message call
C8_Witness ==
  \E id \in DOMAIN dm_logs :
     /\ now > user.trial_end_date
     /\ dm_logs[id].dm_status = "failed"
     /\ dm_logs[id].error_message = EntitlementReason
     /\ attempts[id] = 0
     /\ automations[dm_logs[id].automation_id].total_dms_failed = 1
     /\ automations[dm_logs[id].automation_id].total_dms_pending = 0

\* C9: a job whose row was already sent or failed when the job loaded it makes
\* no send_message call, records no rate-limit usage and changes neither the
\* row nor any automation counter.
C9_TerminalUntouched ==
  [][\A w \in Workers :
       (workers[w].dm_status \in {"sent", "failed"} /\ workers'[w] # workers[w])
          => /\ attempts' = attempts
             /\ trackers' = trackers
             /\ dm_logs' = dm_logs
             /\ automations' = automations]_vars

\* C10: over all executions of the job of one row, send_message succeeds at
\* most once.
C10_DeliveredOnce == \A id \in DOMAIN dm_logs : delivered[id] <= 1

\* usage recorded in the rate_limit_trackers rows of (user, "dm_send")
RECURSIVE RecordedUsage(_)
RecordedUsage(rows) ==
  IF rows = << >> THEN 0 ELSE Head(rows).count + RecordedUsage(Tail(rows))

\* C11: the commit of a successful send leaves the row sent with the message
\* id and the sent timestamp, the automation's sent counter one higher and its
\* pending counter one lower, and the usage recorded for (user, dm_send) higher
\* by exactly one.
C11_SuccessRecorded ==
  [][\A w \in Workers :
       TrackCommit(w) =>
         LET id == workers[w].job.id
             a == dm_logs[id].automation_id
         IN /\ dm_logs'[id].dm_status = "sent"
            /\ dm_logs'[id].instagram_message_id # ""
            /\ dm_logs'[id].sent_at = now
            /\ automations'[a].total_dms_sent = automations[a].total_dms_sent + 1
            /\ automations'[a].total_dms_pending = automations[a].total_dms_pending - 1
            /\ RecordedUsage(trackers') = RecordedUsage(trackers) + 1]_vars

\* C12: a job that passes the duplicate and entitlement guards while the owner
\* has no usable access token (none stored, or one that does not decrypt) never
\* goes on to send_message, schedules no failure retry, and when it resolves
\* the row it is with the not-connected reason.
C12_NoCredentialNoSend ==
  [][\A w \in Workers : \A job \in queue :
       ( /\ Starts(w, job) /\ ~OtherSent(job.id) /\ can_use_automation(user, now)
         /\ decrypt_token(user.encrypted_access_token) = "" )
         => /\ workers'[w].pc # "sending"
            /\ workers'[w].pc = "commit_failed" => workers'[w].error_message = CredentialReason]_vars

\* the header is the prefix followed by the HMAC of the raw body, nothing else
GoodSignature(req) == req.signature = <<Prefix>> \o expected_signature(req.body)

\* C13: a request whose signature header is missing, lacks the prefix or does
\* not carry the HMAC of the raw body is answered 403 and changes no state:
\* no audit row, no automation change, no dm_logs row, no message.
C13_BadSignatureRejected ==
  [][\A h \in Handlers : \A req \in Requests :
       (Receive(h, req) /\ ~GoodSignature(req))
         => /\ handlers'[h] = Responded(403)
            /\ webhook_logs' = webhook_logs
            /\ automations' = automations
            /\ dm_logs' = dm_logs
            /\ queue' = queue]_vars

\* C14: when the processing of a signed, parsed webhook ends in the except
\* block, the sender gets the 200 acknowledgment, the audit row carries the
\* error and the audit row is not marked processed.
C14_ErrorRecordedAndAcknowledged ==
  [][\A h \in Handlers :
       Except(h) =>
         LET id == handlers[h].webhook_log
         IN /\ handlers'[h].response = 200
            /\ webhook_logs'[id].error_message # ""
            /\ ~webhook_logs'[id].processed]_vars

\* C15: a request whose signature verifies is answered 200 whatever its body
\* is; no step of its handling answers with another status.
C15_VerifiedIsAcknowledged ==
  [][\A h \in Handlers :
       /\ \A req \in Requests :
            (Receive(h, req) /\ GoodSignature(req)) => handlers'[h].response \in {0, 200}
       /\ (handlers[h].webhook_log # 0 /\ handlers'[h].pc = "idle")
             => handlers'[h].response = 200]_vars

\* the audit row of the request a handler is serving is in webhook_logs
AuditPersisted(h) == handlers[h].webhook_log \in DOMAIN webhook_logs

\* C16: a signed, parsed request has its audit row with the raw payload
\* committed in the step that accepts it, a step that changes no automation,
\* no dm_logs row and no queue; every later step of its handler finds that row
\* stored, and no step alters the payload of a stored audit row.
C16_AuditBeforeProcessing ==
  [][/\ \A h \in Handlers : \A req \in Requests :
          (Receive(h, req) /\ handlers'[h].response = 0)
            => /\ Len(webhook_logs') = Len(webhook_logs) + 1
               /\ webhook_logs'[Len(webhook_logs')].payload = req.body.mac
               /\ handlers'[h].webhook_log = Len(webhook_logs')
               /\ automations' = automations
               /\ dm_logs' = dm_logs
               /\ queue' = queue
     /\ \A h \in Handlers :
          (handlers[h].pc # "idle" /\ handlers'[h] # handlers[h]) => AuditPersisted(h)
     /\ \A h \in Handlers :
          (automations' # automations \/ dm_logs' # dm_logs \/ queue' # queue)
            => (handlers[h].pc # "idle" => AuditPersisted(h))
     /\ \A i \in DOMAIN webhook_logs :
          i \in DOMAIN webhook_logs' /\ webhook_logs'[i].payload = webhook_logs[i].payload]_vars

\* a request changed business state: its audit row holds its payload and a
\* dm_logs row and a queued message of its comment exist
C16_Witness ==
  /\ Len(webhook_logs) = 1
  /\ webhook_logs[1].payload = "mac1"
  /\ ~webhook_logs[1].processed
  /\ \E h \in Handlers : handlers[h].webhook_log = 1 /\ handlers[h].pc = "match"
  /\ Len(dm_logs) = 1
  /\ dm_logs[1].comment_id = Events[1].comment_id
  /\ \E job \in queue : job.id = 1

\* a dm_logs row of the automation and the commenter is pending or sent
LiveRecordOf(a, commenter_id) ==
  \E k \in DOMAIN dm_logs :
     /\ dm_logs[k].automation_id = a
     /\ dm_logs[k].instagram_commenter_id = commenter_id
     /\ Live(k)

\* C17: when the handler evaluates automation A for a comment of commenter C
\* while a row of (A, C) is pending or sent, whatever that row's comment id,
\* it creates no dm_logs row, leaves A's processed and pending counters as
\* they are, enqueues nothing and does not go on to the insert for A.
C17_LiveRecordSkips ==
  [][\A h \in Handlers :
       LET hs == handlers[h]
       IN (hs.pc = "match" /\ Evaluate(h)
             /\ LiveRecordOf(Head(hs.todo), Events[hs.event].commenter_id))
            => LET a == Head(hs.todo)
               IN /\ dm_logs' = dm_logs
                  /\ queue' = queue
                  /\ automations'[a].total_comments_processed
                       = automations[a].total_comments_processed
                  /\ automations'[a].total_dms_pending = automations[a].total_dms_pending
                  /\ handlers'[h].pc # "insert"
                  /\ handlers'[h].todo # hs.todo]_vars

\* both comments of one commenter were handled while the owner was entitled;
\* automation 1 matches both, its row carries the first comment's id and is
\* sent, and the second comment neither added a row nor counted
C17_Witness ==
  /\ now = 0 /\ user.is_active
  /\ Len(webhook_logs) = 2
  /\ \A i \in DOMAIN webhook_logs : webhook_logs[i].processed
  /\ webhook_logs[1].payload = "mac1" /\ webhook_logs[2].payload = "mac2"
  /\ \A h \in Handlers : handlers[h].pc = "idle"
  /\ \A a \in AutomationIds : automations[a].status = "active"
  /\ \E k \in DOMAIN dm_logs :
        /\ dm_logs[k].automation_id = 1
        /\ dm_logs[k].comment_id = Events[1].comment_id
        /\ dm_logs[k].dm_status = "sent"
  /\ \A k \in DOMAIN dm_logs :
        dm_logs[k].automation_id = 1 => dm_logs[k].comment_id = Events[1].comment_id
  /\ automations[1].total_comments_processed = 1

\* the owner row the handler's session reads: the one it loaded for an
\* earlier automation of this request, or else the stored row
SessionUser(h) == IF handlers[h].user_loaded THEN handlers[h].user ELSE user

\* that owner fails the entitlement check now
OwnerFailsCheck(h) ==
  LET u == SessionUser(h)
  IN \/ ~u.is_active
     \/ u.subscription_status = "trial" /\ now > u.trial_end_date
     \/ u.subscription_status = "active" /\ now > u.subscription_end_date
     \/ u.subscription_status \notin {"trial", "active"}

\* C18: when the handler evaluates an automation whose owner fails the
\* entitlement check at that moment, the automation becomes disabled and the
\* handler creates no dm_logs row and enqueues nothing for it, whether or not
\* the comment matches its keywords.
C18_LazyDeactivation ==
  [][\A h \in Handlers :
       LET hs == handlers[h]
       IN (hs.pc = "match" /\ Evaluate(h) /\ OwnerFailsCheck(h))
            => /\ automations'[Head(hs.todo)].status = "disabled"
               /\ dm_logs' = dm_logs
               /\ queue' = queue
               /\ handlers'[h].pc # "insert"
               /\ handlers'[h].todo # hs.todo]_vars

\* the trial ended, the account is still active, and a comment that matches
\* automation 1 and not automation 2 was handled: both are disabled and nothing
\* was created or queued
C18_Witness ==
  /\ now > user.trial_end_date
  /\ user.is_active
  /\ Len(webhook_logs) = 1
  /\ webhook_logs[1].payload = "mac2"
  /\ webhook_logs[1].processed
  /\ \A a \in AutomationIds : automations[a].status = "disabled"
  /\ dm_logs = << >>
  /\ queue = {}

\* the handler goes on with the automation after the head of its list, for
\* the same comment, or leaves the loop when the head was the last
MovesOn(hs, next) ==
  IF Len(hs.todo) > 1
  THEN next.pc = "match" /\ next.todo = Tail(hs.todo) /\ next.event = hs.event
  ELSE next.pc = "finish"

C20_InactiveAutomationNoSend ==
  [][\A w \in Workers : \A job \in queue :
       (Starts(w, job) /\ automations[dm_logs[job.id].automation_id].status # "active")
         => workers'[w].pc # "sending"]_vars

\* C21: a dm_logs row is created with the message text its handler read from
\* the automation, no later step changes the stored message of a row, and the
\* text passed to send_message for a row is its stored message, whatever the
\* automation's message text has become since.
C21_MessageSnapshot ==
  [][/\ \A h \in Handlers :
          (handlers[h].pc = "insert" /\ Insert(h))
            => dm_logs'[Len(dm_logs')].message_sent
                 = handlers[h].loaded[Head(handlers[h].todo)].message_text
     /\ \A id \in DOMAIN dm_logs :
          id \in DOMAIN dm_logs' /\ dm_logs'[id].message_sent = dm_logs[id].message_sent
     /\ \A w \in Workers :
          (workers[w].pc = "sending" /\ (SendSucceeds(w) \/ SendFails(w)))
            => workers[w].message_text = dm_logs[workers[w].job.id].message_sent]_vars

\* a DM went out with the text of its row while the automation holds another
C21_Witness ==
  \E w \in Workers :
     /\ workers[w].pc = "tracking"
     /\ workers[w].message_text = "hello"
     /\ dm_logs[workers[w].job.id].message_sent = "hello"
     /\ automations[dm_logs[workers[w].job.id].automation_id].message_text = "bye"

\* an active window of (user, dm_send) is at or above the limit
SomeWindowAtCeiling ==
  \E k \in ActiveTrackers : trackers[k].count >= DM_RATE_LIMIT_PER_DAY

\* C22: check_rate_limit returns false exactly when an active window of
\* (user, dm_send) has its count at or above the limit, and true when there is
\* no active window, none ever created or the last one expired.
C22_AllowExactly ==
  [][CheckRateLimit =>
       /\ (call'.result = FALSE) <=> SomeWindowAtCeiling
       /\ ActiveTrackers = {} => call'.result = TRUE]_vars

\* C23: every commit of track_rate_limit adds exactly one to the window it
\* records in, whatever other track_rate_limit calls run beside it: to the
\* count the active window holds at the commit, or as the count 1 of the
\* window it opens.
C23_RecordAtomic ==
  [][\A w \in Workers :
       TrackCommit(w) =>
         LET t == workers[w].tracker
         IN IF t # 0
            THEN trackers'[t].count = trackers[t].count + 1
            ELSE /\ Len(trackers') = Len(trackers) + 1
                 /\ trackers'[Len(trackers')].count = 1]_vars

\* C24: after every step at most one rate_limit_trackers row of
\* (user, dm_send) is active; and a track_rate_limit call that found no
\* active window opens a new one and leaves every existing row as it is.
C24_OneActiveWindow ==
  [][/\ Cardinality({k \in DOMAIN trackers' : trackers'[k].window_end > now'}) <= 1
     /\ \A w \in Workers :
          (TrackCommit(w) /\ workers[w].tracker = 0)
            => /\ Len(trackers') = Len(trackers) + 1
               /\ \A k \in DOMAIN trackers : trackers'[k] = trackers[k]]_vars

\* C25: no step lowers the processed-comment, pending, sent or failed counter
\* of an automation.
C25_CountersNeverDecrease ==
  [][\A a \in AutomationIds :
       /\ automations'[a].total_comments_processed >= automations[a].total_comments_processed
       /\ automations'[a].total_dms_pending >= automations[a].total_dms_pending
       /\ automations'[a].total_dms_sent >= automations[a].total_dms_sent
       /\ automations'[a].total_dms_failed >= automations[a].total_dms_failed]_vars

\* the keyword occurs in the text, both lower-cased unless the mode is case sensitive
Occurs(text, keyword, case_sensitive) ==
  IF case_sensitive THEN Contains(text, keyword)
  ELSE Contains(LowerStr(text), LowerStr(keyword))

\* position of the first keyword of the list that occurs in the text, 0 for none
FirstOccurring(text, keywords, case_sensitive) ==
  IF \E i \in DOMAIN keywords : Occurs(text, keywords[i], case_sensitive)
  THEN CHOOSE i \in DOMAIN keywords :
         /\ Occurs(text, keywords[i], case_sensitive)
         /\ \A k \in 1..(i - 1) : ~Occurs(text, keywords[k], case_sensitive)
  ELSE 0

\* C26: check_keyword_match returns the first keyword of the list, in its
\* order and as it is configured, that occurs as a substring of the text (both
\* lower-cased when case_sensitive is false), and None when no keyword occurs
\* or the list is empty.
C26_FirstKeywordInOrder ==
  call.op = "check_keyword_match" =>
    LET i == FirstOccurring(call.text, call.keywords, call.case_sensitive)
    IN /\ i = 0 => call.result = NoKeyword
       /\ i # 0 => call.result = call.keywords[i]
       /\ call.keywords = << >> => call.result = NoKeyword

\* a later keyword occurs in the text in another spelling, an earlier one does
\* not occur: the later one is returned as configured
C26_Witness ==
  /\ call.op = "check_keyword_match"
  /\ ~call.case_sensitive
  /\ call.text = <<"B", "u", "y">>
  /\ call.keywords = << <<" ">>, <<"B", "U", "Y">> >>
  /\ call.result = <<"B", "U", "Y">>

\* str.upper() of one character; the sharp s has no single upper-case character
Upper(c) ==
  CASE c = "b" -> <<"B">>
    [] c = "u" -> <<"U">>
    [] c = "y" -> <<"Y">>
    [] c = "h" -> <<"H">>
    [] c = "i" -> <<"I">>
    [] c = "s" -> <<"S">>
    [] c = SharpS -> <<"S", "S">>
    [] OTHER -> <<c>>

RECURSIVE UpperStr(_)
UpperStr(s) == IF s = << >> THEN << >> ELSE Upper(Head(s)) \o UpperStr(Tail(s))

\* C27: check_keyword_match on the empty text returns None for every keyword
\* list and both modes, also a list with an empty or a blank keyword; and the
\* handler creates no dm_logs row for a comment with empty text.
C27_EmptyTextNeverMatches ==
  [][/\ (call'.op = "check_keyword_match" /\ call'.text = << >>)
          => call'.result = NoKeyword
     /\ \A h \in Handlers :
          (handlers[h].pc = "insert" /\ Insert(h)) => Events[handlers[h].event].text # << >>]_vars

\* the keywords of a list, each in another letter case
UpperKeywords(keywords) == [i \in DOMAIN keywords |-> UpperStr(keywords[i])]
LowerKeywords(keywords) == [i \in DOMAIN keywords |-> LowerStr(keywords[i])]

\* C28: in case-insensitive mode the result of check_keyword_match does not
\* depend on the letter case of the text, and with the keywords in another
\* letter case the keyword at the same position matches, or none does as
\* before; a repeated call returns what the first returned and changes nothing.
C28_CaseIgnored ==
  (call.op = "check_keyword_match" /\ ~call.case_sensitive) =>
    LET i == FirstOccurring(call.text, call.keywords, FALSE)
        same_position(keywords) ==
          check_keyword_match(call.text, keywords, FALSE)
            = IF i = 0 THEN NoKeyword ELSE keywords[i]
    IN /\ check_keyword_match(UpperStr(call.text), call.keywords, FALSE) = call.result
       /\ check_keyword_match(LowerStr(call.text), call.keywords, FALSE) = call.result
       /\ same_position(UpperKeywords(call.keywords))
       /\ same_position(LowerKeywords(call.keywords))
       /\ check_keyword_match(call.text, call.keywords, FALSE) = call.result

\* C29: the handshake answers 200 exactly when hub.mode is "subscribe" and
\* hub.verify_token equals META_VERIFY_TOKEN, and then the body is the
\* challenge as it came, as text/plain; every other request, also one without
\* a mode or a token, gets an error status; no request changes a row, the
\* queue or a handler.
C29_Handshake ==
  [][(call'.op = "verify_webhook" /\ call' # call) =>
       LET response == call'.response
           granted == call'.mode = "subscribe" /\ call'.token = META_VERIFY_TOKEN
       IN /\ (response.status_code = 200) <=> granted
          /\ granted => /\ response.media_type = "text/plain"
                        /\ call'.challenge # None => response.body = call'.challenge
          /\ ~granted => response.status_code \in 400..599
          /\ UNCHANGED <<now, user, automations, dm_logs, trackers, queue, handlers, workers,
                         webhooks, webhook_logs, redelivered, delivered, attempts, sends_today>>]_vars

\* a handshake with the right mode and token was answered with its challenge
\* while a comment webhook was between its insert and its enqueue
C29_Witness ==
  /\ call.op = "verify_webhook"
  /\ call.mode = "subscribe" /\ call.token = META_VERIFY_TOKEN
  /\ call.challenge = "a b"
  /\ call.response = [status_code |-> 200, media_type |-> "text/plain", body |-> "a b"]
  /\ handlers[1].pc = "enqueue"
  /\ Len(dm_logs) = 1
  /\ queue = {}

\* C30: every dm_logs row process_comment_webhook creates is stored as
\* pending with the matched keyword and the automation's message, the same
\* commit raises the automation's total_comments_processed and
\* total_dms_pending by exactly one, and once the row is stored exactly one
\* job with its id is enqueued; no job carries an id that is not a stored row.
C30_RecordCountersJob ==
  [][ /\ \A h \in Handlers : (handlers[h].pc = "insert" /\ Insert(h)) =>
           LET a == Head(handlers[h].todo)
               row == dm_logs'[Len(dm_logs')]
           IN /\ Len(dm_logs') = Len(dm_logs) + 1
              /\ row.dm_status = "pending"
              /\ row.automation_id = a
              /\ row.matched_keyword = handlers[h].matched_keyword
              /\ row.message_sent = handlers[h].loaded[a].message_text
              /\ automations'[a].total_comments_processed = automations[a].total_comments_processed + 1
              /\ automations'[a].total_dms_pending = automations[a].total_dms_pending + 1
      /\ \A h \in Handlers : (handlers[h].pc = "enqueue" /\ handlers'[h].pc # "enqueue") =>
           /\ \E job \in queue' \ queue : job.id = handlers[h].dm_log_id
           /\ Cardinality(queue' \ queue) = 1
      /\ \A job \in queue' : job.id \in DOMAIN dm_logs'
      /\ \A job \in queue' \ queue : \E h \in Handlers :
           handlers[h].pc = "enqueue" /\ handlers[h].dm_log_id = job.id ]_vars


\* C31: a commit of the dispatch task either takes a record out of pending by
\* the entitlement, credential, success or failure outcome and, with it,
\* lowers the automation's total_dms_pending by one and raises total_dms_sent
\* (success) or total_dms_failed (the others) by one, or does neither: no
\* commit shows the status change without the counter changes, and none the
\* counter changes without the status change.
LeavesPending(id) ==
  /\ dm_logs[id].dm_status = "pending"
  /\ dm_logs'[id].dm_status \in {"sent", "failed"}
  /\ dm_logs'[id].error_message # DuplicateReason

C31_StatusAndCountersTogether ==
  [][ /\ \A id \in DOMAIN dm_logs : LeavesPending(id) =>
           LET a == dm_logs[id].automation_id
               sent == IF dm_logs'[id].dm_status = "sent" THEN 1 ELSE 0
           IN /\ automations'[a].total_dms_pending = automations[a].total_dms_pending - 1
              /\ automations'[a].total_dms_sent = automations[a].total_dms_sent + sent
              /\ automations'[a].total_dms_failed = automations[a].total_dms_failed + (1 - sent)
      /\ \A a \in AutomationIds :
           (\/ automations'[a].total_dms_pending # automations[a].total_dms_pending
            \/ automations'[a].total_dms_sent # automations[a].total_dms_sent
            \/ automations'[a].total_dms_failed # automations[a].total_dms_failed)
           => \E id \in DOMAIN dm_logs : dm_logs[id].automation_id = a /\ LeavesPending(id) ]_vars


\* C32: once send_message has returned, whatever goes wrong in lines 155-163
\* (reading the reply options, choosing one, posting it) leaves the row SENT
\* with its message id, leaves total_dms_sent, total_dms_failed and
\* total_dms_pending as the success set them, publishes no retry, and
\* send_message is not called a second time for the row.
C32_ReplyFailureIsHarmless ==
  [][ /\ \A w \in Workers : (workers[w].pc = "tracking" /\ TrackCommit(w)) =>
           LET ws == workers[w]
               id == ws.job.id
               a == dm_logs[id].automation_id
           IN /\ dm_logs'[id].dm_status = "sent"
              /\ dm_logs'[id].instagram_message_id = "mid"
              /\ automations'[a].total_dms_sent = ws.automation.total_dms_sent + 1
              /\ automations'[a].total_dms_pending = ws.automation.total_dms_pending - 1
              /\ automations'[a].total_dms_failed = automations[a].total_dms_failed
              /\ queue' = queue
      /\ \A id \in DOMAIN delivered' : delivered'[id] <= 1 ]_vars


\* another row of the same comment is SENT
SentElsewhere(id) ==
  /\ dm_logs[id].comment_id # ""
  /\ \E k \in DOMAIN dm_logs \ {id} :
       dm_logs[k].comment_id = dm_logs[id].comment_id /\ dm_logs[k].dm_status = "sent"

\* every window of the owner that is open now is at the daily limit
AtDailyLimit ==
  /\ \E k \in DOMAIN trackers : trackers[k].window_end > now
  /\ \A k \in DOMAIN trackers :
       trackers[k].window_end > now => trackers[k].count >= DM_RATE_LIMIT_PER_DAY

\* C33: the task tests duplicate, entitlement, rate limit and credential in
\* this order and the first test that applies decides alone: a duplicate of a
\* non-entitled owner is marked failed as a duplicate and no counter changes;
\* a non-entitled owner's job is marked failed for the entitlement and no job
\* is published for it, also at the daily limit; an entitled owner at the
\* daily limit without a token gets the job published again with the deferral
\* countdown and the row is left as it is.
C33_GuardOrder ==
  [][ /\ \A w \in Workers : (workers[w].pc = "idle" /\ Consume(w)) =>
           LET job == CHOOSE j \in queue : j \notin queue'
               id == job.id
               ws == workers'[w]
           IN /\ (SentElsewhere(id) /\ NotEntitled) =>
                   /\ ws.pc = "commit_failed"
                   /\ ws.error_message = DuplicateReason
                   /\ queue' = queue \ {job}
              /\ (~SentElsewhere(id) /\ NotEntitled) =>
                   /\ ws.pc = "commit_failed"
                   /\ ws.error_message = EntitlementReason
                   /\ queue' = queue \ {job}
              /\ (~SentElsewhere(id) /\ ~NotEntitled /\ AtDailyLimit
                    /\ user.encrypted_access_token = NoToken) =>
                   /\ ws.pc = "idle"
                   /\ \E again \in queue' \ queue :
                        again.id = id /\ again.countdown = DeferCountdown
                   /\ dm_logs' = dm_logs
      /\ \A w \in Workers :
           (workers[w].pc = "commit_failed" /\ CommitFailed(w)) =>
             LET id == workers[w].job.id
             IN /\ workers[w].error_message = DuplicateReason =>
                     /\ automations' = automations
                     /\ dm_logs'[id].error_message = DuplicateReason
                /\ workers[w].error_message = EntitlementReason =>
                     /\ dm_logs'[id].dm_status = "failed"
                     /\ dm_logs'[id].error_message = EntitlementReason ]_vars


\* C34: verify_webhook_signature returns True for the header that is the
\* prefix sha256= followed by the hex HMAC-SHA256 of the raw body and nothing
\* else, and returns False for every other header, one with more text after a
\* correct digest included.
C34_FailsClosed ==
  call.op = "verify_webhook_signature" =>
    /\ ~call.raised
    /\ call.result <=> (call.signature = <<Prefix, call.payload.mac>>)


\* an element that is not a complete comment event: a messaging element, a
\* change of a field other than comments, or a comment value that lacks its
\* id, its media id or its commenter id
NotACompleteComment(element) ==
  \/ element.list = "messaging"
  \/ element.list = "changes" /\ element.field # "comments"
  \/ /\ element.list = "changes" /\ element.field = "comments" /\ element.value
     /\ ~(element.id /\ element.media /\ element.from)

\* the body an audit row was written for
BodyOf(mac) ==
  CHOOSE b \in Bodies \cup OtherBodies \cup MixedBodies \cup ElsewhereBodies : b.mac = mac

\* an envelope that holds such elements only
OnlyOtherEvents(body) ==
  /\ body.json /\ body.event = 0 /\ body.before # << >>
  /\ \A i \in DOMAIN body.before : NotACompleteComment(body.before[i])

\* C35: a signed envelope whose elements are direct messages, story replies,
\* reactions, changes of a field other than comments or comment values
\* without id, media id or commenter id changes no automation, adds no
\* dm_logs row and publishes no job, and it is not an error: the request goes
\* straight to lines 86-87, its audit row is marked processed, carries no
\* error text, and the answer is 200.
C35_OtherEventsAreNoOps ==
  [][ /\ \A h \in Handlers : \A req \in EnvelopeRequests :
           (Receive(h, req) /\ OnlyOtherEvents(req.body)) =>
             /\ handlers'[h].pc = "finish"
             /\ webhook_logs'[handlers'[h].webhook_log].payload = req.body.mac
             /\ automations' = automations /\ dm_logs' = dm_logs /\ queue' = queue
      /\ \A h \in Handlers :
           LET k == handlers[h].webhook_log
           IN (/\ handlers[h].pc \in {"finish", "except"}
               /\ handlers'[h] # handlers[h]
               /\ OnlyOtherEvents(BodyOf(webhook_logs[k].payload))) =>
                /\ webhook_logs'[k].processed
                /\ webhook_logs'[k].error_message = ""
                /\ handlers'[h].response = 200
                /\ automations' = automations /\ dm_logs' = dm_logs /\ queue' = queue ]_vars

\* both replicas have answered: one a comment without media id, the other a
\* story reply; both audit rows are processed without error and nothing else
\* was written
C35_Witness ==
  /\ Len(webhook_logs) = 2
  /\ {webhook_logs[1].payload, webhook_logs[2].payload} = {"mac7", "mac12"}
  /\ \A k \in 1..2 : webhook_logs[k].processed /\ webhook_logs[k].error_message = ""
  /\ \A h \in Handlers : handlers[h].response = 200
  /\ dm_logs = << >> /\ queue = {} /\ automations = InitAutomations


\* the request that wrote audit row k has been answered
Answered(k) == \A h \in Handlers : handlers[h].webhook_log # k

\* C36: when an element of an envelope raises, the error is recorded in the
\* audit row and the elements after it are processed all the same: once the
\* request is answered, the comment event that follows a comment change
\* without "value" has its dm_logs row and a job for that row.
C36_LaterEventsStillProcessed ==
  \A k \in DOMAIN webhook_logs :
    LET body == BodyOf(webhook_logs[k].payload)
    IN (/\ Answered(k)
        /\ \E i \in DOMAIN body.before : body.before[i] = NoValue
        /\ body.event # 0) =>
         /\ webhook_logs[k].error_message # ""
         /\ \E id \in DOMAIN dm_logs :
              /\ dm_logs[id].comment_id = Events[body.event].comment_id
              /\ \E job \in queue : job.id = id


\* the automations a comment event addresses now: active and on its media
Targets(ev) ==
  {a \in AutomationIds : /\ automations[a].status = "active"
                         /\ automations[a].instagram_media_id = ev.media_id}

\* C37: a dm_logs row is created only for an automation that the request's
\* query found active and targeting the media of the comment, whose owner
\* passed the entitlement check of this request and one of whose keywords
\* occurs in the comment text; a comment on a media that no active automation
\* targets leaves automations, dm_logs and the queue as they are.
C37_OnlyMatchingAutomations ==
  [][ /\ \A h \in Handlers : \A req \in EnvelopeRequests :
           (Receive(h, req) /\ req.body.event # 0 /\ req.body.before # <<NoValue>>) =>
             LET targets == Targets(Events[req.body.event])
                 todo == handlers'[h].todo
             IN /\ {todo[i] : i \in DOMAIN todo} = targets
                /\ automations' = automations /\ dm_logs' = dm_logs /\ queue' = queue
                /\ targets = {} => handlers'[h].pc = "finish"
      /\ \A h \in Handlers :
           LET hs == handlers[h]
               a == Head(hs.todo)
           IN (hs.pc = "match" /\ Evaluate(h) /\ handlers'[h].pc = "insert") =>
                /\ ~OwnerFailsCheck(h)
                /\ \E i \in DOMAIN automations[a].keywords :
                     Occurs(Events[hs.event].text, automations[a].keywords[i],
                            automations[a].case_sensitive)
                /\ handlers'[h].todo = hs.todo /\ handlers'[h].event = hs.event
      /\ \A h \in Handlers :
           LET hs == handlers[h]
           IN (hs.pc = "insert" /\ Insert(h)) =>
                /\ dm_logs'[Len(dm_logs')].automation_id = Head(hs.todo)
                /\ dm_logs'[Len(dm_logs')].comment_id = Events[hs.event].comment_id
                /\ automations[Head(hs.todo)].instagram_media_id = Events[hs.event].media_id
      /\ \A h \in Handlers :
           handlers[h].pc \in {"match", "insert", "enqueue"} =>
             handlers'[h].todo \in {handlers[h].todo, Tail(handlers[h].todo), << >>}
      /\ Len(dm_logs') > Len(dm_logs) =>
           \E h \in Handlers : handlers[h].pc = "insert" /\ Insert(h) ]_vars

\* the comment c1 has its two rows, the comment c4 on the media without
\* automation has been answered and has none
C37_Witness ==
  /\ Len(webhook_logs) = 2
  /\ {webhook_logs[1].payload, webhook_logs[2].payload} = {"mac1", "mac16"}
  /\ \A k \in 1..2 : webhook_logs[k].processed
  /\ Len(dm_logs) = 2
  /\ \A id \in DOMAIN dm_logs : dm_logs[id].comment_id = "c1"
  /\ \A h \in Handlers : handlers[h].response = 200


\* C38: total_dms_pending of every automation is at least zero in every
\* state, whatever the order of comment processing and task executions,
\* retries and repeated executions of a job included.
C38_PendingNeverNegative ==
  \A a \in AutomationIds : automations[a].total_dms_pending >= 0


\* C39: no row is left pending once its job has stopped being rescheduled:
\* when no message of a row waits in the queue and no worker runs its job, be
\* it after exhausted retries, after repeated rate-limit deferrals or after
\* an exception, the row is sent or failed.
C39_NoRowLeftPending ==
  \A id \in DOMAIN dm_logs :
    Settled(id) => dm_logs[id].dm_status \in {"sent", "failed"}

\* C40: rate-limit deferrals do not use up the retries of a job: the retry
\* number of a queued message never exceeds the send_message calls made for
\* its row, and a job that has ended with its row still pending was not ended
\* before the row had its three calls.
C40_DeferralsAreFree ==
  /\ \A job \in queue : job.retries <= attempts[job.id]
  /\ \A id \in DOMAIN dm_logs :
       (Settled(id) /\ dm_logs[id].dm_status = "pending") => attempts[id] >= RetryCeiling

====
